---- MODULE Spec2Model ----
(***************************************************************************)
(* github-repo-structure: get_repo_structure and the recursive _build_tree *)
(* of repo_structure.py, as a state machine over the disk.                 *)
(*                                                                         *)
(* A path is the sequence of its names below the repository root (the root *)
(* itself is <<>>); Path.parts of an entry is the parts of clone_path      *)
(* followed by that sequence.  One recursive call of _build_tree is one    *)
(* step; a directory whose entries are being visited is a frame on `stack`.*)
(***************************************************************************)
EXTENDS Integers, Sequences, FiniteSets, TLC

\* ------------------------------------------------------------------ bounds
\* entries below the root besides .git and .gitignore
MaxEntries == 4
\* largest max_depth argument tried (besides None and -1)
MaxDepthArg == 2

\* ------------------------------------------------------------ Python values
\* Python's None, as an argument or a return value
None == [type |-> "None"]
\* get_repo_structure has not returned yet
NotReturned == [type |-> "unset"]

\* repo_structure.py:23-27
DEFAULT_EXCLUDES == {".git", "node_modules", "venv"}

\* ------------------------------------------------------------------- names
\* The code points of every name the model uses (str is a sequence of them).
Codes ==
    [n \in {".git", ".gitignore", "a", "A", "b", "B", "x.pyc", "*.pyc",
            "node_modules", "b.txt", "repo", "venv", "."} |->
        CASE n = ".git"         -> <<46, 103, 105, 116>>
          [] n = ".gitignore"   -> <<46, 103, 105, 116, 105, 103, 110, 111, 114, 101>>
          [] n = "a"            -> <<97>>
          [] n = "A"            -> <<65>>
          [] n = "b"            -> <<98>>
          [] n = "B"            -> <<66>>
          [] n = "x.pyc"        -> <<120, 46, 112, 121, 99>>
          [] n = "*.pyc"        -> <<42, 46, 112, 121, 99>>
          [] n = "node_modules" -> <<110, 111, 100, 101, 95, 109, 111, 100, 117, 108, 101, 115>>
          [] n = "b.txt"        -> <<98, 46, 116, 120, 116>>
          [] n = "repo"         -> <<114, 101, 112, 111>>
          [] n = "venv"         -> <<118, 101, 110, 118>>
          [] n = "."            -> <<46>>]

\* str.lower() on one code point: A-Z become a-z
LowerCode(c) == IF c >= 65 /\ c <= 90 THEN c + 32 ELSE c

\* the key without lower(): a case-sensitive sort
RawKey(name) == Codes[name]

\* the sort key of repo_structure.py:237-238, d.name.lower()
LowerKey(name) == [i \in 1..Len(Codes[name]) |-> LowerCode(Codes[name][i])]

\* Python's str comparison s <= t: lexicographic on code points
RECURSIVE StrLeq(_, _)
StrLeq(s, t) ==
    IF s = <<>> THEN TRUE
    ELSE IF t = <<>> THEN FALSE
    ELSE IF Head(s) < Head(t) THEN TRUE
    ELSE IF Head(s) > Head(t) THEN FALSE
    ELSE StrLeq(Tail(s), Tail(t))

\* ------------------------------------------------------------- filesystem
\* What an entry is on disk.  link_dir is a symbolic link to the repository
\* root (an ancestor of the link: a cycle), link_file a link to a regular
\* file, link_missing a dangling link, other a FIFO/socket/device, and
\* dir_noperm a directory whose listing is denied (EACCES).
Kinds == {"dir", "dir_noperm", "file", "link_dir", "link_file", "link_missing", "other"}

\* The entries a snapshot may contain and the kinds each may have.
Universe ==
    (<<"a">>                         :> {"dir", "dir_noperm", "link_dir", "file"}) @@
    (<<"A">>                         :> {"file", "dir"}) @@
    (<<"B">>                         :> {"file", "dir", "link_file", "link_missing", "other"}) @@
    (<<"x.pyc">>                     :> {"file"}) @@
    (<<"*.pyc">>                     :> {"file"}) @@
    (<<"a", "node_modules">>         :> {"dir"}) @@
    (<<"a", "node_modules", "b.txt">> :> {"file", "link_file"}) @@
    (<<"a", "B">>                    :> {"file", "dir", "link_dir"}) @@
    (<<"a", "B", "b.txt">>           :> {"file"})

Front(s) == SubSeq(s, 1, Len(s) - 1)
Last(s) == s[Len(s)]

\* the snapshots below a directory root: at most MaxEntries entries, each
\* inside a real directory of the snapshot
Contents ==
    UNION { { f \in [S -> Kinds] :
                \A p \in S :
                    /\ f[p] \in Universe[p]
                    /\ Len(p) > 1 => (Front(p) \in S /\ f[Front(p)] = "dir") }
            : S \in { T \in SUBSET DOMAIN Universe : Cardinality(T) <= MaxEntries } }

\* What git clone can leave below the root: regular files, symbolic links and
\* directories that are not empty (git tracks no empty directory, no FIFO and
\* no permissions that deny listing).
Cloneable ==
    { c \in Contents :
        \A p \in DOMAIN c :
            /\ c[p] \in {"dir", "file", "link_dir", "link_file", "link_missing"}
            /\ c[p] = "dir" => \E q \in DOMAIN c : Len(q) > 1 /\ Front(q) = p }

\* a .gitignore at the root: absent, or its rule lines.  A line is a literal
\* name, negated ("!name") or not.
IgnoreFiles ==
    { [present |-> FALSE, lines |-> <<>>],
      [present |-> TRUE, lines |-> << [negated |-> FALSE, name |-> "A"] >>],
      [present |-> TRUE, lines |-> << [negated |-> FALSE, name |-> "b.txt"],
                                      [negated |-> TRUE, name |-> "b.txt"],
                                      [negated |-> FALSE, name |-> "B"] >>] }

\* Path(clone_path).parts: the names above the root, then the root's name
ClonePaths == { <<"repo">>, <<"venv", "repo">> }

\* an int argument
PyInt(n) == [type |-> "int", value |-> n]

\* the max_depth arguments
MaxDepths == {None} \cup { PyInt(n) : n \in -1..MaxDepthArg }

\* the exclude_patterns arguments: None or a list of names
ExcludeArgs == { None, [type |-> "list", items |-> {"*.pyc"}] }

VARIABLES
    clone_path,        \* parts of the clone_path argument
    rootKind,          \* what clone_path names on disk: "dir", "file", "missing",
                       \* or "link_dir", a symbolic link to a directory
    fs,                \* the disk below the root: path below the root -> kind
    remote,            \* what a clone of github_url leaves below the root
    gitignore,         \* the repository's .gitignore (an element of IgnoreFiles)
    max_depth,         \* the max_depth argument
    exclude_arg,       \* the exclude_patterns argument
    pc,                \* "start", "cloned", "build", "done" or "error"
    err,               \* the exception that ended the call, "" when none
    exclude_patterns,  \* the merged exclusion list of get_repo_structure
    pathspec_obj,      \* the result of _get_pathspec
    stack,             \* the active _build_tree calls that are visiting entries
    structure,         \* what get_repo_structure returned
    calls,             \* every _build_tree call of this build, in order
    previous           \* what the previous get_repo_structure call returned

args == <<clone_path, remote, gitignore, max_depth, exclude_arg>>
inputs == <<args, rootKind, fs>>
vars == <<clone_path, rootKind, fs, remote, gitignore, max_depth, exclude_arg, pc, err,
          exclude_patterns, pathspec_obj, stack, structure, calls, previous>>

\* a working tree: its entries, the .git directory and the .gitignore file
WithGitFiles(c, ignore) ==
    c @@ (<<".git">> :> "dir")
      @@ (IF ignore.present THEN <<".gitignore">> :> "file" ELSE <<>>)

\* A cloned working tree, a symbolic link to one, a regular file, or nothing
\* at clone_path with a repository to clone at github_url.
Init ==
    /\ clone_path \in ClonePaths
    /\ rootKind \in {"dir", "link_dir", "file", "missing"}
    /\ gitignore \in IgnoreFiles
    /\ CASE rootKind = "dir" ->
              /\ \E c \in Contents : fs = WithGitFiles(c, gitignore)
              /\ remote = <<>>
         [] rootKind = "link_dir" ->
              /\ \E c \in Cloneable : fs = WithGitFiles(c, gitignore)
              /\ remote = <<>>
         [] rootKind = "missing" ->
              /\ fs = <<>>
              /\ \E c \in Cloneable : remote = WithGitFiles(c, gitignore)
         [] rootKind = "file" ->
              /\ fs = <<>>
              /\ remote = <<>>
              /\ gitignore.present = FALSE
    /\ max_depth \in MaxDepths
    /\ exclude_arg \in ExcludeArgs
    /\ pc = "start"
    /\ err = ""
    /\ exclude_patterns = {}
    /\ pathspec_obj = None
    /\ stack = <<>>
    /\ structure = NotReturned
    /\ calls = <<>>
    /\ previous = NotReturned

\* --------------------------------------------------------- path inspection
\* the directory a path resolves to, every symbolic link on it followed
RECURSIVE RealPath(_)
RealPath(p) ==
    IF p = <<>> THEN <<>>
    ELSE LET cand == Append(RealPath(Front(p)), Last(p))
         IN  IF cand \in DOMAIN fs /\ fs[cand] = "link_dir" THEN <<>> ELSE cand

\* lstat of a path: the kind of its final component, links before it followed
KindOf(p) ==
    IF p = <<>> THEN rootKind
    ELSE LET cand == Append(RealPath(Front(p)), Last(p))
         IN  IF cand \in DOMAIN fs THEN fs[cand] ELSE "missing"

\* Path.is_symlink()
is_symlink(p) == KindOf(p) \in {"link_dir", "link_file", "link_missing"}

\* Path.is_file(): follows links
is_file(p) == KindOf(p) \in {"file", "link_file"}

\* Path.is_dir(): follows links
is_dir(p) == KindOf(p) \in {"dir", "dir_noperm", "link_dir"}

\* Path.exists(): follows links
exists(p) == KindOf(p) \notin {"missing", "link_missing"}

\* the entries current_path.iterdir() yields, as a set
Listing(p) ==
    { Append(p, Last(q)) : q \in { r \in DOMAIN fs : Front(r) = RealPath(p) } }

\* iterdir() raises PermissionError
ListingDenied(p) == KindOf(p) = "dir_noperm"

\* current_path.parts
Parts(p) == clone_path \o p

\* current_path.name
Name(p) == Last(Parts(p))

\* ---------------------------------------------------------------- filters
\* fnmatch of a name against a pattern: "*<suffix>" matches every name that
\* ends with the suffix, any other pattern matches itself only
GlobMatch(part, pat) ==
    LET n == Codes[part]
        g == Codes[pat]
    IN  IF g # <<>> /\ Head(g) = 42
        THEN /\ Len(n) >= Len(g) - 1
             /\ SubSeq(n, Len(n) - Len(g) + 2, Len(n)) = Tail(g)
        ELSE part = pat

\* a segment test that globs instead of comparing
SegmentGlobbed(part) == \E pat \in exclude_patterns : GlobMatch(part, pat)

\* repo_structure.py:200, `part in exclude_patterns`
SegmentExcluded(part) == part \in exclude_patterns

\* repo_structure.py:200, any(part in exclude_patterns for part in current_path.parts)
IsExcluded(p) == \E i \in 1..Len(Parts(p)) : SegmentExcluded(Parts(p)[i])

\* str(path.relative_to(repo_root)), as its segments: "." for the root itself
RelSegments(p) == IF p = <<>> THEN << "." >> ELSE p

\* one gitwildmatch rule that is a literal name matches a path when one of the
\* path's segments is that name
RuleMatches(line, segs) == \E i \in 1..Len(segs) : segs[i] = line.name

\* PathSpec.match_file: the last rule that matches decides
RECURSIVE match_file(_, _)
match_file(lines, segs) ==
    IF lines = <<>> THEN FALSE
    ELSE IF RuleMatches(Last(lines), segs) THEN ~Last(lines).negated
    ELSE match_file(Front(lines), segs)

\* repo_structure.py:167-176
is_ignored(p) ==
    IF pathspec_obj = None THEN FALSE
    ELSE match_file(pathspec_obj.lines, RelSegments(p))

\* ---------------------------------------------------------------- sorting
\* list.sort(key=...) is stable: an element goes after every element whose
\* key is <= its own
RECURSIVE InsertStable(_, _)
InsertStable(s, e) ==
    IF s = <<>> THEN <<e>>
    ELSE IF StrLeq(LowerKey(Last(Last(s))), LowerKey(Last(e))) THEN Append(s, e)
    ELSE Append(InsertStable(Front(s), e), Last(s))

\* repo_structure.py:237-238
RECURSIVE SortByName(_)
SortByName(seq) ==
    IF seq = <<>> THEN <<>> ELSE InsertStable(SortByName(Front(seq)), Last(seq))

\* every order a set of entries may come in
RECURSIVE Orders(_)
Orders(S) ==
    IF S = {} THEN { <<>> }
    ELSE UNION { { <<x>> \o o : o \in Orders(S \ {x}) } : x \in S }

\* repo_structure.py:230-234: iterdir() yields the entries in an arbitrary
\* order and the loop appends each to dirs or to files, so dirs is the
\* directories of the listing in some order and files the rest in some order
DirsOf(p) == { e \in Listing(p) : is_dir(e) }
FilesOf(p) == { e \in Listing(p) : ~is_dir(e) }

\* repo_structure.py:237-263: both lists sorted, dirs visited before files
EntriesToVisit(dirs, files) == SortByName(dirs) \o SortByName(files)

\* ------------------------------------------------------------------ nodes
\* repo_structure.py:220-223
BareDirNode(name) == [name |-> name, type |-> "directory"]

\* attaches the children list even when it is empty
AlwaysWithChildren(node, children) ==
    [name |-> node.name, type |-> node.type, children |-> children]

\* repo_structure.py:265-266, `if children: node["children"] = children`
WithChildren(node, children) ==
    IF children # <<>>
    THEN [name |-> node.name, type |-> node.type, children |-> children]
    ELSE node

\* repo_structure.py:213-216
FileNode(name) == [name |-> name, type |-> "file"]

\* ------------------------------------------------------------- _build_tree
\* repo_structure.py:106, the depth of the root call
RootDepth == 0

\* a recursive call that forgets to go one level down
SameDepth(depth) == depth

\* repo_structure.py:247 and 259, current_depth + 1
ChildDepth(depth) == depth + 1

\* repo_structure.py:196
BeyondMaxDepth(depth) == max_depth # None /\ depth > max_depth.value

\* gathers the children of a directory at max_depth too
GathersChildrenAtLimit(depth) == max_depth = None \/ depth <= max_depth.value

\* repo_structure.py:227
GathersChildren(depth) == max_depth = None \/ depth < max_depth.value

\* a symlink test that never fires
NeverSymlink(p) == FALSE

\* repo_structure.py:208, current_path.is_symlink()
SymlinkCheck(p) == is_symlink(p)

\* The return statement one call of _build_tree reaches, or "enumerate" when
\* it goes on to list the directory (repo_structure.py:196-271).
Branch(p, depth) ==
    IF BeyondMaxDepth(depth) THEN "cutoff"
    ELSE IF IsExcluded(p) THEN "excluded"
    ELSE IF is_ignored(p) THEN "ignored"
    ELSE IF SymlinkCheck(p) THEN "symlink"
    ELSE IF is_file(p) THEN "file"
    ELSE IF is_dir(p) THEN (IF GathersChildren(depth) THEN "enumerate" ELSE "dir_leaf")
    ELSE "other"

Top == stack[Len(stack)]

\* a call of _build_tree is about to be made: the root call of
\* get_repo_structure, or the next iteration of the two loops of the innermost
\* active call
HasCall == pc = "build" /\ (IF stack = <<>> THEN TRUE ELSE Top.pending # <<>>)
CallPath == IF stack = <<>> THEN <<>> ELSE Head(Top.pending)
CallDepth == IF stack = <<>> THEN RootDepth ELSE ChildDepth(Top.depth)

\* A call returns res to its caller: get_repo_structure returns it
\* (repo_structure.py:110), or the loop appends it unless it is None
\* (repo_structure.py:250-251, 262-263) and moves to the next entry.
Returned(stk, res) ==
    IF stk = <<>>
    THEN /\ stack' = <<>>
         /\ structure' = res
         /\ pc' = "done"
    ELSE /\ stack' = [stk EXCEPT ![Len(stk)] =
                        [@ EXCEPT !.pending = Tail(@),
                                  !.children = IF res = None THEN @ ELSE Append(@, res)]]
         /\ structure' = structure
         /\ pc' = pc

\* a call that returns without listing anything
ReturnsAtOnce(outcome, res) ==
    /\ Returned(stack, res)
    /\ calls' = Append(calls, [path |-> CallPath, depth |-> CallDepth, outcome |-> outcome])
    /\ UNCHANGED <<inputs, err, exclude_patterns, pathspec_obj, previous>>

\* repo_structure.py:196-197
DepthCutoff ==
    /\ HasCall
    /\ Branch(CallPath, CallDepth) = "cutoff"
    /\ ReturnsAtOnce("cutoff", None)

\* repo_structure.py:200-201
ExcludedReturn ==
    /\ HasCall
    /\ Branch(CallPath, CallDepth) = "excluded"
    /\ ReturnsAtOnce("excluded", None)

\* repo_structure.py:204-205
IgnoredReturn ==
    /\ HasCall
    /\ Branch(CallPath, CallDepth) = "ignored"
    /\ ReturnsAtOnce("ignored", None)

\* repo_structure.py:208-209
SymlinkReturn ==
    /\ HasCall
    /\ Branch(CallPath, CallDepth) = "symlink"
    /\ ReturnsAtOnce("symlink", None)

\* repo_structure.py:212-216
FileReturn ==
    /\ HasCall
    /\ Branch(CallPath, CallDepth) = "file"
    /\ ReturnsAtOnce("file", FileNode(Name(CallPath)))

\* repo_structure.py:219-227 and 268: a directory at max_depth
DirAtMaxDepth ==
    /\ HasCall
    /\ Branch(CallPath, CallDepth) = "dir_leaf"
    /\ ReturnsAtOnce("dir_leaf", BareDirNode(Name(CallPath)))

\* repo_structure.py:270-271
OtherKindReturn ==
    /\ HasCall
    /\ Branch(CallPath, CallDepth) = "other"
    /\ ReturnsAtOnce("other", None)

\* repo_structure.py:228-240: the directory is listed, in whatever order
\* iterdir() yields, partitioned and sorted
EnumerateDir ==
    /\ HasCall
    /\ Branch(CallPath, CallDepth) = "enumerate"
    /\ ~ListingDenied(CallPath)
    /\ \E dirs \in Orders(DirsOf(CallPath)), files \in Orders(FilesOf(CallPath)) :
          stack' = Append(stack, [path |-> CallPath, depth |-> CallDepth,
                                  pending |-> EntriesToVisit(dirs, files),
                                  children |-> <<>>])
    /\ calls' = Append(calls, [path |-> CallPath, depth |-> CallDepth, outcome |-> "enumerate"])
    /\ UNCHANGED <<inputs, pc, err, exclude_patterns, pathspec_obj, structure, previous>>

\* repo_structure.py:230: iterdir() raises PermissionError, which nothing
\* catches: it leaves every active call and get_repo_structure
IterdirRaises ==
    /\ HasCall
    /\ Branch(CallPath, CallDepth) = "enumerate"
    /\ ListingDenied(CallPath)
    /\ pc' = "error"
    /\ err' = "PermissionError"
    /\ stack' = <<>>
    /\ calls' = Append(calls, [path |-> CallPath, depth |-> CallDepth, outcome |-> "denied"])
    /\ UNCHANGED <<inputs, exclude_patterns, pathspec_obj, structure, previous>>

\* repo_structure.py:265-268: both loops are over, the directory's node returns
DirReturn ==
    /\ pc = "build"
    /\ stack # <<>>
    /\ Top.pending = <<>>
    /\ Returned(Front(stack), WithChildren(BareDirNode(Name(Top.path)), Top.children))
    /\ UNCHANGED <<inputs, err, exclude_patterns, pathspec_obj, calls, previous>>

\* ------------------------------------------------------ get_repo_structure
\* repo_structure.py:88-92
MergedExcludes ==
    IF exclude_arg = None THEN DEFAULT_EXCLUDES
    ELSE exclude_arg.items \cup DEFAULT_EXCLUDES

\* repo_structure.py:152-165
get_pathspec ==
    IF is_file(<<".gitignore">>)
    THEN [type |-> "PathSpec", lines |-> gitignore.lines]
    ELSE None

\* repo_structure.py:144
IsCloned == exists(<<>>) /\ exists(<<".git">>)

\* repo_structure.py:88-95 with the repository already cloned (144-146)
AlreadyCloned ==
    /\ pc = "start"
    /\ IsCloned
    /\ exclude_patterns' = MergedExcludes
    /\ pc' = "cloned"
    /\ UNCHANGED <<inputs, err, pathspec_obj, stack, structure, calls, previous>>

\* repo_structure.py:88-95 with the clone made (147-150, 133): git clones into
\* a path that does not exist, and leaves the working tree there
CloneReturns ==
    /\ pc = "start"
    /\ ~IsCloned
    /\ rootKind = "missing"
    /\ rootKind' = "dir"
    /\ fs' = remote
    /\ exclude_patterns' = MergedExcludes
    /\ pc' = "cloned"
    /\ UNCHANGED <<args, err, pathspec_obj, stack, structure, calls, previous>>

\* repo_structure.py:149 and 133: the clone raises (the destination is a
\* regular file, the remote cannot be reached), and so does get_repo_structure
CloneRaises ==
    /\ pc = "start"
    /\ ~IsCloned
    /\ exclude_patterns' = MergedExcludes
    /\ pc' = "error"
    /\ err' = "GitCommandError"
    /\ UNCHANGED <<inputs, pathspec_obj, stack, structure, calls, previous>>

\* repo_structure.py:97-98
GetPathspec ==
    /\ pc = "cloned"
    /\ pathspec_obj' = get_pathspec
    /\ pc' = "build"
    /\ UNCHANGED <<inputs, err, exclude_patterns, stack, structure, calls, previous>>

\* the caller calls get_repo_structure again with the same arguments over the
\* disk as it is
CallAgain ==
    /\ pc = "done"
    /\ previous = NotReturned
    /\ previous' = structure
    /\ structure' = NotReturned
    /\ pc' = "start"
    /\ exclude_patterns' = {}
    /\ pathspec_obj' = None
    /\ calls' = <<>>
    /\ UNCHANGED <<inputs, err, stack>>

Next ==
    \/ AlreadyCloned
    \/ CloneReturns
    \/ CloneRaises
    \/ GetPathspec
    \/ DepthCutoff
    \/ ExcludedReturn
    \/ IgnoredReturn
    \/ SymlinkReturn
    \/ FileReturn
    \/ DirAtMaxDepth
    \/ OtherKindReturn
    \/ EnumerateDir
    \/ IterdirRaises
    \/ DirReturn
    \/ CallAgain

Spec == Init /\ [][Next]_vars

\* ================================================================= claims
HasChildren(node) == "children" \in DOMAIN node

\* every node of a tree with its path below the root
RECURSIVE Nodes(_, _)
Nodes(node, p) ==
    { [path |-> p, node |-> node] } \cup
    ( IF HasChildren(node)
      THEN UNION { Nodes(node.children[i], Append(p, node.children[i].name)) :
                     i \in 1..Len(node.children) }
      ELSE {} )

\* the nodes get_repo_structure returned
Output ==
    IF pc = "done" /\ structure.type \in {"file", "directory"}
    THEN Nodes(structure, <<>>)
    ELSE {}

Links == {"link_dir", "link_file", "link_missing"}

\* the segments from the root's own name down to the entry
RootDown(p) == << clone_path[Len(clone_path)] >> \o p

NoneIn(segs, S) == \A i \in 1..Len(segs) : segs[i] \notin S

NonNegativeLimit == max_depth # None /\ max_depth.value >= 0

\* the lower-cased form of each name
LowerCased(name) ==
    CASE name = "A" -> "a"
      [] name = "B" -> "b"
      [] OTHER -> name

\* C1: for a root that exists as a directory (no symlink) and a max_depth
\* that is None or >= 0, get_repo_structure returns a Directory node for the
\* root, whatever the names on the root's path are.
C1_RootAlwaysDirectory ==
    (pc = "done" /\ rootKind = "dir" /\ (max_depth = None \/ max_depth.value >= 0))
        => structure.type = "directory"

\* C2: exclusion is a segment-wise exact-membership test against the caller's
\* list united with .git, node_modules, venv: no node is emitted for an entry
\* below the root one of whose segments from the root down is a member; the
\* exclusion check drops a visited entry below the root exactly when one of
\* those segments is a member, so a wildcard member such as *.pyc drops only
\* an entry literally named so.
C2_SegmentWiseExclusion ==
    /\ \A n \in Output :
          n.path # <<>> => NoneIn(RootDown(n.path), MergedExcludes)
    /\ \A i \in 1..Len(calls) :
          (calls[i].path # <<>> /\ calls[i].outcome # "cutoff") =>
              (calls[i].outcome = "excluded"
                  <=> ~NoneIn(RootDown(calls[i].path), MergedExcludes))

\* a/node_modules is dropped by the exclusion check while a and its sibling
\* a/B are emitted, and *.pyc is a member while x.pyc is emitted
C2_Witness ==
    /\ pc = "done"
    /\ "*.pyc" \in exclude_patterns
    /\ \E i \in 1..Len(calls) :
          calls[i].path = <<"a", "node_modules">> /\ calls[i].outcome = "excluded"
    /\ \E n \in Output : n.path = <<"a", "B">>
    /\ \E n \in Output : n.path = <<"x.pyc">>

\* C3: with max_depth = n >= 0 every node of the returned tree lies at depth
\* <= n (the root at depth 0) and a Directory node at depth n has no children.
C3_DepthBounded ==
    (pc = "done" /\ NonNegativeLimit) =>
        \A n \in Output :
            /\ Len(n.path) <= max_depth.value
            /\ Len(n.path) = max_depth.value => ~HasChildren(n.node)

\* max_depth = 1 and a/B/b.txt on disk: a is emitted without children
C3_Witness ==
    /\ pc = "done"
    /\ max_depth = PyInt(1)
    /\ <<"a", "B", "b.txt">> \in DOMAIN fs
    /\ \E n \in Output :
          n.path = <<"a">> /\ n.node.type = "directory" /\ ~HasChildren(n.node)

\* C4: in every children sequence the directories come before the files and
\* each of the two groups is in ascending order of lower-cased name.
C4_ChildrenOrdered ==
    \A n \in Output :
        HasChildren(n.node) =>
            \A i, j \in 1..Len(n.node.children) :
                i < j =>
                    LET x == n.node.children[i]
                        y == n.node.children[j]
                    IN  /\ ~(x.type = "file" /\ y.type = "directory")
                        /\ x.type = y.type =>
                             StrLeq(Codes[LowerCased(x.name)], Codes[LowerCased(y.name)])

\* the directories a and B in that order although B sorts first by code
\* point, then the files A and x.pyc in that order
C4_Witness ==
    /\ pc = "done"
    /\ structure.type = "directory"
    /\ HasChildren(structure)
    /\ structure.children = << BareDirNode("a"), BareDirNode("B"),
                               FileNode("A"), FileNode("x.pyc") >>

\* C5: children is present only on Directory nodes and is never empty: a File
\* node has none, and a directory that is empty or whose entries were all
\* filtered out is emitted without the field.
C5_ChildrenOnlyNonEmptyOnDirs ==
    /\ \A n \in Output :
          HasChildren(n.node) =>
              (n.node.type = "directory" /\ n.node.children # <<>>)
    /\ \A n \in Output :
          (\A e \in Listing(n.path) : \A m \in Output : m.path # e)
              => ~HasChildren(n.node)

\* a listed directory whose only entries were filtered out is emitted without
\* children, next to a listed directory that is empty and a File node
C5_Witness ==
    /\ pc = "done"
    /\ \E n \in Output :
          /\ n.node = BareDirNode("a")
          /\ Listing(n.path) # {}
          /\ \E i \in 1..Len(calls) :
                calls[i].path = n.path /\ calls[i].outcome = "enumerate"
    /\ \E n \in Output :
          /\ n.node = BareDirNode("A")
          /\ \E i \in 1..Len(calls) :
                calls[i].path = n.path /\ calls[i].outcome = "enumerate"
    /\ \E n \in Output : n.node.type = "file"

\* C6: every emitted node, and every ancestor of it, is an entry none of whose
\* path segments is in the merged exclusion set, that the ignore matcher
\* (when there is one) does not match, and that is no symbolic link.
C6_EmittedPassedFilters ==
    \A n \in Output :
        \A k \in 0..Len(n.path) :
            LET q == SubSeq(n.path, 1, k)
            IN  /\ KindOf(q) \in {"dir", "dir_noperm", "file"}
                /\ NoneIn(Parts(q), MergedExcludes)
                /\ gitignore.present => ~match_file(gitignore.lines, RelSegments(q))
                /\ n.node.type = (IF KindOf(n.path) = "file" THEN "file" ELSE "directory")

\* with a .gitignore, an entry dropped by it, a symlink to a regular file
\* dropped at the symlink check, a symlink to a directory dropped two levels
\* down and its parent emitted
C6_Witness ==
    /\ pc = "done"
    /\ gitignore.present
    /\ \E i \in 1..Len(calls) : calls[i].outcome = "ignored"
    /\ \E i \in 1..Len(calls) :
          /\ calls[i].outcome = "symlink"
          /\ KindOf(calls[i].path) = "link_file"
    /\ \E i \in 1..Len(calls) :
          /\ calls[i].outcome = "symlink"
          /\ KindOf(calls[i].path) = "link_dir"
          /\ \E n \in Output : n.path = Front(calls[i].path) /\ n.path # <<>>

\* C7: a permission-denied failure on an entry does not abort the build.
C7_PermissionDeniedSkipped == ~(pc = "error" /\ err = "PermissionError")

\* C8: for a root that does not exist or is no directory when the tree is
\* built, get_repo_structure fails and returns neither a node nor None.
C8_InvalidRootFails == rootKind # "dir" => pc # "done"

\* C9: a second build over the same snapshot with the same arguments returns
\* the same tree, whatever order the listings come in.
C9_RebuildIdentical ==
    (pc = "done" /\ previous # NotReturned) => structure = previous

\* the properties of the calls made so far that C10 names
EnumerationSafe ==
    \A i \in 1..Len(calls) :
        /\ calls[i].outcome \in {"enumerate", "denied"} =>
              /\ KindOf(calls[i].path) \notin Links
              /\ \A j \in 1..Len(calls) :
                    (j # i /\ calls[j].outcome \in {"enumerate", "denied"})
                        => RealPath(calls[j].path) # RealPath(calls[i].path)
        /\ NonNegativeLimit => calls[i].depth <= max_depth.value

\* the calls a build can make at most: one per entry, and the root
MostCalls == Cardinality(DOMAIN fs) + 1

\* the calls a build can make at most once the clone, if any, is made
MostCallsCloned == Cardinality(DOMAIN fs) + Cardinality(DOMAIN remote) + 1

\* the work a call of get_repo_structure has left: calls still to make and
\* directories still to return from
Remaining ==
    IF pc \in {"done", "error"} THEN 0
    ELSE IF pc = "start" THEN 2 * MostCallsCloned + 3
    ELSE IF pc = "cloned" THEN 2 * MostCalls + 2
    ELSE 1 + 2 * (MostCalls - Len(calls)) + Len(stack)

\* a build that has not ended has a statement to run next: the clone check, a
\* call of _build_tree that takes one of its branches, or the return of the
\* innermost directory whose loops are over
CanStep ==
    \/ pc \in {"start", "cloned"}
    \/ /\ pc = "build"
       /\ IF HasCall
          THEN Branch(CallPath, CallDepth) \in
                 {"cutoff", "excluded", "ignored", "symlink", "file", "dir_leaf",
                  "other", "enumerate"}
          ELSE stack # <<>> /\ Top.pending = <<>>

\* C10: every build terminates, also over a symlink cycle and with max_depth
\* None: a build that has not ended can take a step, every step of it leaves
\* strictly less work, and the work left is never negative; no symlink is
\* ever listed, each real directory is listed at most once, and with
\* max_depth = n >= 0 no call is made at a depth above n.
C10_Terminates ==
    /\ []EnumerationSafe
    /\ [](Remaining >= 0)
    /\ [](pc \in {"done", "error"} \/ CanStep)
    /\ [][(pc \in {"start", "cloned", "build"}) => (Remaining' < Remaining)]_vars

\* a build with no depth limit over a snapshot that holds a symlink to the
\* root two levels down has ended, having met the link
C10_Witness ==
    /\ pc = "done"
    /\ max_depth = None
    /\ \E i \in 1..Len(calls) :
          /\ calls[i].path = <<"a", "B">>
          /\ KindOf(calls[i].path) = "link_dir"
          /\ calls[i].outcome = "symlink"
====
